---- MODULE Spec2Model ----
(***************************************************************************)
(* Model of the synthetic e-commerce data pipeline:                        *)
(*   synthetic_data_generator.py  - generates five collections, writes CSV *)
(*   ingest_to_sqlite.py          - loads the CSVs into SQLite tables      *)
(*   query_top_spenders.py        - top-5 spender aggregate                *)
(*                                                                         *)
(* Conventions.  Money is an integer number of cents.  A date is a day     *)
(* number, a datetime is a number of minutes (day * 1440 + minute of day). *)
(* Every call of the random module is a draw; the draws of one function    *)
(* call are gathered in one record, and each action picks them from the    *)
(* bounded draw sets of the scenario under check.                          *)
(***************************************************************************)
EXTENDS Integers, Sequences, FiniteSets, TLC

VARIABLES
    scen,           \* which bounded draw sets this run uses (fixed by Init)
    pc,             \* position of the operator's session: which script step is next
    now,            \* datetime.now() of the current generator run, in minutes
    tape,           \* the draws the seeded generator has produced so far (random.seed(42))
    run,            \* number of the current generator run (1 = first run)
    customers, products, orders, order_details, payments,   \* main()'s locals
    files,          \* data_output/*.csv
    prev_files,     \* the CSV files as the previous generator run left them
    db,             \* ecommerce.db: committed rows per table, foreign_keys pragma
    exc,            \* the exception that ended a script, "" if none
    result          \* the rows of the query's data frame

vars == <<scen, pc, now, tape, run, customers, products, orders, order_details,
          payments, files, prev_files, db, exc, result>>

(***************************************************************************)
(* Small helpers                                                           *)
(***************************************************************************)
Max(a, b) == IF a >= b THEN a ELSE b
Min(a, b) == IF a <= b THEN a ELSE b

Range(s) == {s[i] : i \in 1..Len(s)}

\* All sequences t with Len(t) = Len(sets) and t[i] \in sets[i].
RECURSIVE ProductOf(_)
ProductOf(sets) ==
    IF sets = <<>> THEN {<<>>}
    ELSE {<<x>> \o t : x \in Head(sets), t \in ProductOf(Tail(sets))}

MinutesPerDay == 1440
DateOf(dt) == dt \div MinutesPerDay          \* datetime.date()
Midnight(d) == d * MinutesPerDay             \* datetime.combine(d, datetime.min.time())

(***************************************************************************)
(* Program constants of synthetic_data_generator.py                        *)
(***************************************************************************)
FIRST_NAMES == <<"Emma", "Liam", "Olivia", "Noah", "Ava", "Elijah", "Sophia", "Lucas",
                 "Isabella", "Mason", "Mia", "Ethan", "Charlotte", "Logan", "Amelia",
                 "James", "Harper", "Benjamin", "Evelyn", "Henry">>
LAST_NAMES == <<"Smith", "Johnson", "Brown", "Taylor", "Anderson", "Thomas", "Jackson",
                "White", "Harris", "Martin", "Thompson", "Garcia", "Martinez", "Robinson",
                "Clark", "Rodriguez", "Lewis", "Lee", "Walker", "Hall">>

\* PRODUCT_CATEGORIES flattened in iteration order: (category, name, min_price, max_price)
PRODUCT_CATEGORIES ==
    << <<"Electronics", "Wireless Earbuds", 59, 199>>,
       <<"Electronics", "Smartphone Case", 9, 39>>,
       <<"Electronics", "USB-C Charger", 12, 45>>,
       <<"Electronics", "Laptop Sleeve", 18, 69>>,
       <<"Electronics", "Smartwatch", 99, 349>>,
       <<"Home", "Ceramic Mug", 6, 20>>,
       <<"Home", "Throw Pillow", 14, 55>>,
       <<"Home", "Desk Lamp", 22, 110>>,
       <<"Home", "Bath Towel Set", 25, 90>>,
       <<"Home", "Knife Set", 35, 160>>,
       <<"Beauty", "Facial Cleanser", 10, 35>>,
       <<"Beauty", "Sunscreen SPF 50", 12, 42>>,
       <<"Beauty", "Shampoo", 8, 28>>,
       <<"Beauty", "Serum", 22, 90>>,
       <<"Beauty", "Moisturizer", 15, 60>>,
       <<"Sports", "Yoga Mat", 18, 60>>,
       <<"Sports", "Running Shoes", 55, 180>>,
       <<"Sports", "Water Bottle", 12, 40>>,
       <<"Sports", "Fitness Tracker", 59, 220>>,
       <<"Sports", "Bike Helmet", 35, 140>> >>

CatalogSize == Len(PRODUCT_CATEGORIES)

PAYMENT_METHODS == <<"credit_card", "debit_card", "paypal", "gift_card", "apple_pay">>
STATES == <<"CA", "NY", "TX", "FL", "IL", "PA", "OH", "GA", "NC", "WA">>
EMAIL_DOMAINS == <<"gmail.com", "yahoo.com", "outlook.com", "example.com">>

MinSignupDays == 30          \* random.randint(30, 900)
MaxSignupDays == 900
MinHour == 8                 \* random.randint(8, 21)
MaxHour == 21
MaxMinute == 59              \* random.randint(0, 59)
FreeShippingCents == 7500    \* gross >= 75
MinShippingCents == 499      \* random.uniform(4.99, 14.99)
MaxShippingCents == 1499
MinTaxRate == 500            \* random.uniform(0.05, 0.095), in 1/10000
MaxTaxRate == 950
MinPayMinutes == 5           \* random.randint(5, 90)
MaxPayMinutes == 90
MinDiscount == 5             \* round(random.uniform(0.05, 0.25), 2), in 1/100
MaxDiscount == 25
TopN == 5                    \* LIMIT 5

(***************************************************************************)
(* synthetic_data_generator.py: the generation functions.  Each takes the  *)
(* draws its random calls return (ds) next to its arguments.               *)
(***************************************************************************)

\* f"{random.choice(FIRST_NAMES)} {random.choice(LAST_NAMES)}": the pair stands for the string
random_name(d) == <<FIRST_NAMES[d.first], LAST_NAMES[d.last]>>

\* base + suffix + "@" + domain; suffix 0 stands for the empty suffix
random_email(name, d) ==
    [base |-> name, suffix |-> d.suffix, domain |-> EMAIL_DOMAINS[d.domain]]

random_phone(d) == <<d.phone1, d.phone2, d.phone3>>

GenerateCustomer(cid, t, d) ==
    LET name == random_name(d) IN
    [customer_id |-> cid,
     name        |-> name,
     email       |-> random_email(name, d),
     phone       |-> random_phone(d),
     state       |-> STATES[d.state],
     signup_date |-> DateOf(t - d.days * MinutesPerDay)]

generate_customers(count, t, ds) ==
    [cid \in 1..count |-> GenerateCustomer(cid, t, ds[cid])]

\* price = max(min_price, min(max_price, price)), in cents
ClampPrice(min_price, max_price, price) ==
    Max(min_price * 100, Min(max_price * 100, price))

generate_products(ds) ==
    [pid \in 1..CatalogSize |->
        [product_id |-> pid,
         name       |-> PRODUCT_CATEGORIES[pid][2],
         category   |-> PRODUCT_CATEGORIES[pid][1],
         unit_price |-> ClampPrice(PRODUCT_CATEGORIES[pid][3],
                                   PRODUCT_CATEGORIES[pid][4], ds[pid].price),
         stock      |-> ds[pid].stock]]

\* days_since_signup, floored at 1
DaysSinceSignup(signup_date, t) ==
    LET days == DateOf(t) - signup_date IN IF days <= 0 THEN 1 ELSE days

\* mutant: the lower clamp at 0 instead of 1
ClampDeltaFromZero(days_since_signup, delta_days) ==
    IF Min(days_since_signup, delta_days) >= 0 THEN Min(days_since_signup, delta_days) ELSE 0

\* delta_days = max(1, min(days_since_signup, delta_days))
ClampDelta(days_since_signup, delta_days) ==
    Max(1, Min(days_since_signup, delta_days))

\* d.gauss is int(abs(random.gauss(days/2, days/3)))
random_order_date(signup_date, t, d) ==
    LET days_since_signup == DaysSinceSignup(signup_date, t)
        delta_days == ClampDelta(days_since_signup, d.gauss)
        order_date == signup_date + delta_days
    IN  Midnight(order_date) + d.hour * 60 + d.minute

\* random has no poisson attribute, so the gauss branch runs: max(1, int(gauss(2.5, 1)))
OrdersCount(gauss) == Max(1, gauss)

\* orders.sort(key=order_datetime): list.sort is stable
RECURSIVE InsertByDatetime(_, _)
InsertByDatetime(sorted, o) ==
    IF sorted = <<>> THEN <<o>>
    ELSE IF Head(sorted).order_datetime <= o.order_datetime
         THEN <<Head(sorted)>> \o InsertByDatetime(Tail(sorted), o)
         ELSE <<o>> \o sorted

RECURSIVE SortByDatetime(_)
SortByDatetime(s) ==
    IF s = <<>> THEN <<>>
    ELSE InsertByDatetime(SortByDatetime(SubSeq(s, 1, Len(s) - 1)), s[Len(s)])

\* the orders of one customer, ids from oid on
OrdersOfCustomer(c, t, d, oid) ==
    [k \in 1..OrdersCount(d.gauss) |->
        [order_id       |-> oid + k - 1,
         customer_id    |-> c.customer_id,
         order_datetime |-> random_order_date(c.signup_date, t, d.dates[k]),
         shipping_state |-> c.state]]

RECURSIVE OrdersLoop(_, _, _, _, _)
OrdersLoop(custs, t, ds, i, oid) ==
    IF i > Len(custs) THEN <<>>
    ELSE LET mine == OrdersOfCustomer(custs[i], t, ds[i], oid)
         IN  mine \o OrdersLoop(custs, t, ds, i + 1, oid + Len(mine))

generate_orders(custs, t, ds) == SortByDatetime(OrdersLoop(custs, t, ds, 1, 1))

\* n / d rounded to the nearest integer; on an exact tie the binary value of the
\* float product decides, which the flag up stands for
RoundDiv(n, d, up) ==
    LET q == n \div d
        r == n % d
    IN  IF 2 * r < d THEN q
        ELSE IF 2 * r > d THEN q + 1
        ELSE IF up THEN q + 1 ELSE q

\* mutant: item_count without its floor of 1
ItemCountNoFloor(gauss) == IF gauss >= 0 THEN gauss ELSE 0

\* item_count = max(1, int(random.gauss(2, 1))); quantity likewise
ItemCount(gauss) == Max(1, gauss)

\* mutant: k independent choices (random.choices) instead of a sample
SampleWithReplacement(prods, k, perm) == [j \in 1..k |-> prods[perm[1 + (j % 2)]]]

\* random.sample(products, k): k distinct positions; d.perm is the order the sampler visits
Sample(prods, k, perm) == [j \in 1..k |-> prods[perm[j]]]

\* round(unit_price * quantity * (1 - discount), 2); discount in 1/100
LineTotal(unit_price, quantity, discount, up) ==
    RoundDiv(unit_price * quantity * (100 - discount), 100, up)

DetailsOfOrder(order, prods, d, detail_id) ==
    LET item_count == ItemCount(d.gauss)
        chosen_products == Sample(prods, Min(item_count, Len(prods)), d.perm)
    IN  [j \in 1..Len(chosen_products) |->
            LET quantity == Max(1, d.lines[j].gauss) IN
            [order_detail_id |-> detail_id + j - 1,
             order_id        |-> order.order_id,
             product_id      |-> chosen_products[j].product_id,
             quantity        |-> quantity,
             unit_price      |-> chosen_products[j].unit_price,
             discount        |-> d.lines[j].discount,
             line_total      |-> LineTotal(chosen_products[j].unit_price, quantity,
                                           d.lines[j].discount, d.lines[j].up)]]

RECURSIVE DetailsLoop(_, _, _, _, _)
DetailsLoop(ords, prods, ds, i, detail_id) ==
    IF i > Len(ords) THEN <<>>
    ELSE LET mine == DetailsOfOrder(ords[i], prods, ds[i], detail_id)
         IN  mine \o DetailsLoop(ords, prods, ds, i + 1, detail_id + Len(mine))

generate_order_details(ords, prods, ds) == DetailsLoop(ords, prods, ds, 1, 1)

\* detail_totals: order_id -> the float sum of its line totals.  cents is the sum
\* in cents, n the number of terms added (the float sum of three or more
\* two-decimal terms may lie one ulp off the decimal sum).
RECURSIVE DetailTotals(_, _)
DetailTotals(details, acc) ==
    IF details = <<>> THEN acc
    ELSE LET d == Head(details)
             old == IF d.order_id \in DOMAIN acc THEN acc[d.order_id]
                    ELSE [cents |-> 0, n |-> 0]
             new == [cents |-> old.cents + d.line_total, n |-> old.n + 1]
         IN  DetailTotals(Tail(details),
                 [k \in DOMAIN acc \cup {d.order_id} |->
                     IF k = d.order_id THEN new ELSE acc[k]])

EmptyTotals == [k \in {} |-> 0]

\* the float gross lies just below its decimal value: possible from the third term on
FloatBelow(gross, d) == gross.n >= 3 /\ d.low

\* gross >= 75 on the unrounded float
GrossAtLeast(gross, cents, d) ==
    gross.cents > cents \/ (gross.cents = cents /\ ~FloatBelow(gross, d))

PaymentOf(order, pid, gross, d) ==
    LET tax == RoundDiv(gross.cents * d.rate, 10000, d.up)
        shipping == IF GrossAtLeast(gross, FreeShippingCents, d) THEN 0 ELSE d.shipping
        total == gross.cents + tax + shipping
    IN  [payment_id       |-> pid,
         order_id         |-> order.order_id,
         payment_method   |-> PAYMENT_METHODS[d.method],
         payment_datetime |-> order.order_datetime + d.minutes,
         subtotal         |-> gross.cents,
         tax              |-> tax,
         shipping         |-> shipping,
         total            |-> total,
         currency         |-> "USD"]

\* detail_totals[order["order_id"]] raises KeyError for an order without lines
PaymentsKeyError(ords, details) ==
    LET detail_totals == DetailTotals(details, EmptyTotals)
    IN  \E i \in 1..Len(ords) : ords[i].order_id \notin DOMAIN detail_totals

generate_payments(ords, details, ds) ==
    LET detail_totals == DetailTotals(details, EmptyTotals)
    IN  [i \in 1..Len(ords) |->
            PaymentOf(ords[i], i, detail_totals[ords[i].order_id], ds[i])]

(***************************************************************************)
(* CSV text.  A cell is the text csv.DictWriter writes for a value: the    *)
(* kind says what the text looks like, v is the value it spells.           *)
(***************************************************************************)
Tables == {"customers", "products", "orders", "order_details", "payments"}

IntText(n) == [k |-> "int", v |-> n]              \* str(int): "12"
FloatText(x) == [k |-> "float", v |-> x]          \* str(float): "12.34", x in 1/100
DateText(d) == [k |-> "date", v |-> d]            \* str(date): "YYYY-MM-DD"
DatetimeText(dt) == [k |-> "datetime", v |-> dt]  \* str(datetime): "YYYY-MM-DD HH:MM:SS"
StrText(x) == [k |-> "str", v |-> x]

\* discount and shipping are the int 0 or a float
NumberText(x) == IF x = 0 THEN IntText(0) ELSE FloatText(x)

CustomerRow(c) ==
    [customer_id |-> IntText(c.customer_id), name |-> StrText(c.name),
     email |-> StrText(c.email), phone |-> StrText(c.phone),
     state |-> StrText(c.state), signup_date |-> DateText(c.signup_date)]

ProductRow(p) ==
    [product_id |-> IntText(p.product_id), name |-> StrText(p.name),
     category |-> StrText(p.category), unit_price |-> FloatText(p.unit_price),
     stock |-> IntText(p.stock)]

OrderRow(o) ==
    [order_id |-> IntText(o.order_id), customer_id |-> IntText(o.customer_id),
     order_datetime |-> DatetimeText(o.order_datetime),
     shipping_state |-> StrText(o.shipping_state)]

OrderDetailRow(d) ==
    [order_detail_id |-> IntText(d.order_detail_id), order_id |-> IntText(d.order_id),
     product_id |-> IntText(d.product_id), quantity |-> IntText(d.quantity),
     unit_price |-> FloatText(d.unit_price), discount |-> NumberText(d.discount),
     line_total |-> FloatText(d.line_total)]

PaymentRow(p) ==
    [payment_id |-> IntText(p.payment_id), order_id |-> IntText(p.order_id),
     payment_method |-> StrText(p.payment_method),
     payment_datetime |-> DatetimeText(p.payment_datetime),
     subtotal |-> FloatText(p.subtotal), tax |-> FloatText(p.tax),
     shipping |-> NumberText(p.shipping), total |-> FloatText(p.total),
     currency |-> StrText(p.currency)]

\* the five write_csv calls of main()
WriteAll(custs, prods, ords, details, pays) ==
    [customers     |-> [i \in 1..Len(custs) |-> CustomerRow(custs[i])],
     products      |-> [i \in 1..Len(prods) |-> ProductRow(prods[i])],
     orders        |-> [i \in 1..Len(ords) |-> OrderRow(ords[i])],
     order_details |-> [i \in 1..Len(details) |-> OrderDetailRow(details[i])],
     payments      |-> [i \in 1..Len(pays) |-> PaymentRow(pays[i])]]

NoFiles == [t \in Tables |-> <<>>]

(***************************************************************************)
(* ingest_to_sqlite.py                                                     *)
(***************************************************************************)
\* int(text) accepts decimal integer text only
CanInt(c) == c.k = "int"
ParseInt(c) == c.v
\* float(text) accepts integer or decimal text; the value in 1/100
CanFloat(c) == c.k \in {"int", "float"}
ParseFloat(c) == IF c.k = "int" THEN c.v * 100 ELSE c.v
\* datetime.fromisoformat(value).isoformat(sep=" "): a date reads as its midnight
CanDatetime(c) == c.k \in {"date", "datetime"}
parse_datetime(c) == IF c.k = "date" THEN Midnight(c.v) ELSE c.v

\* the columns each insert function converts
IntColumns(t) ==
    CASE t = "customers"     -> {"customer_id"}
      [] t = "products"      -> {"product_id", "stock"}
      [] t = "orders"        -> {"order_id", "customer_id"}
      [] t = "order_details" -> {"order_detail_id", "order_id", "product_id", "quantity"}
      [] t = "payments"      -> {"payment_id", "order_id"}

FloatColumns(t) ==
    CASE t = "products"      -> {"unit_price"}
      [] t = "order_details" -> {"unit_price", "discount", "line_total"}
      [] t = "payments"      -> {"subtotal", "tax", "shipping", "total"}
      [] OTHER               -> {}

DatetimeColumns(t) ==
    CASE t = "orders"   -> {"order_datetime"}
      [] t = "payments" -> {"payment_datetime"}
      [] OTHER          -> {}

\* no conversion of the row raises ValueError
Converts(t, r) ==
    /\ \A col \in IntColumns(t) : CanInt(r[col])
    /\ \A col \in FloatColumns(t) : CanFloat(r[col])
    /\ \A col \in DatetimeColumns(t) : CanDatetime(r[col])

\* the tuple an insert function builds from a CSV row
ParseRow(t, r) ==
    [col \in DOMAIN r |->
        IF col \in IntColumns(t) THEN ParseInt(r[col])
        ELSE IF col \in FloatColumns(t) THEN ParseFloat(r[col])
        ELSE IF col \in DatetimeColumns(t) THEN parse_datetime(r[col])
        ELSE IF col = "signup_date" THEN r[col]
        ELSE r[col].v]

PrimaryKey(t) ==
    CASE t = "customers"     -> "customer_id"
      [] t = "products"      -> "product_id"
      [] t = "orders"        -> "order_id"
      [] t = "order_details" -> "order_detail_id"
      [] t = "payments"      -> "payment_id"

\* REFERENCES clauses of init_db: <<column, referenced table>>
References(t) ==
    CASE t = "orders"        -> {<<"customer_id", "customers">>}
      [] t = "order_details" -> {<<"order_id", "orders">>, <<"product_id", "products">>}
      [] t = "payments"      -> {<<"order_id", "orders">>}
      [] OTHER               -> {}

Keys(rows, col) == {rows[i][col] : i \in 1..Len(rows)}

\* the foreign keys of a parsed row all point at committed rows
ForeignKeysHold(d, t, row) ==
    \A ref \in References(t) : row[ref[1]] \in Keys(d[ref[2]], PrimaryKey(ref[2]))

\* executemany over the CSV rows from row i on, inserted holding the rows already in
\* the open transaction: the rows to commit, or the exception of the first row refused
RECURSIVE InsertLoop(_, _, _, _, _)
InsertLoop(d, t, csv, i, inserted) ==
    IF i > Len(csv) THEN [rows |-> inserted, exc |-> ""]
    ELSE IF ~Converts(t, csv[i]) THEN [rows |-> inserted, exc |-> "ValueError"]
    ELSE LET row == ParseRow(t, csv[i]) IN
         IF row[PrimaryKey(t)] \in Keys(inserted, PrimaryKey(t))
         THEN [rows |-> inserted, exc |-> "IntegrityError"]
         ELSE IF d.foreign_keys /\ ~ForeignKeysHold(d, t, row)
         THEN [rows |-> inserted, exc |-> "IntegrityError"]
         ELSE InsertLoop(d, t, csv, i + 1, Append(inserted, row))

NoException == [type |-> "", at |-> ""]

\* insert_<t>(conn): executemany then commit.  An exception leaves main()'s with
\* block, whose exit rolls the open transaction back: the table keeps no row.
InsertTable(d, t, csv) ==
    LET done == InsertLoop(d, t, csv, 1, <<>>)
    IN  IF done.exc = "" THEN [db |-> [d EXCEPT ![t] = done.rows], exc |-> NoException]
        ELSE [db |-> d, exc |-> [type |-> done.exc, at |-> "insert_" \o t]]

\* mutant: init_db without the foreign_keys pragma
init_db_without_pragma ==
    [foreign_keys |-> FALSE, customers |-> <<>>, products |-> <<>>, orders |-> <<>>,
     order_details |-> <<>>, payments |-> <<>>]

\* init_db: PRAGMA foreign_keys = ON, drop the five tables, create them empty
init_db ==
    [foreign_keys |-> TRUE, customers |-> <<>>, products |-> <<>>, orders |-> <<>>,
     order_details |-> <<>>, payments |-> <<>>]

\* before the first ingest there is no database file
NoDb == [foreign_keys |-> FALSE, customers |-> <<>>, products |-> <<>>, orders |-> <<>>,
         order_details |-> <<>>, payments |-> <<>>]

\* mutant: orders inserted before customers
InsertOrderOrdersFirst == <<"orders", "customers", "products", "order_details", "payments">>

\* the insert calls of main(), in its order
InsertOrder == <<"customers", "products", "orders", "order_details", "payments">>

\* the insert calls from position i on; the first exception ends the run
RECURSIVE InsertFrom(_, _, _)
InsertFrom(d, fs, i) ==
    IF i > Len(InsertOrder) THEN [db |-> d, exc |-> NoException]
    ELSE LET r == InsertTable(d, InsertOrder[i], fs[InsertOrder[i]])
         IN  IF r.exc # NoException THEN r ELSE InsertFrom(r.db, fs, i + 1)

\* main() of ingest_to_sqlite.py inside the with block
ingest_main(fs) == InsertFrom(init_db, fs, 1)

(***************************************************************************)
(* query_top_spenders.py                                                   *)
(***************************************************************************)
\* the joined rows customers x orders x order_details x products
Joined(d) ==
    {<<c, o, od>> \in (1..Len(d.customers)) \X (1..Len(d.orders)) \X (1..Len(d.order_details)) :
        /\ d.orders[o].customer_id = d.customers[c].customer_id
        /\ d.order_details[od].order_id = d.orders[o].order_id
        /\ \E p \in 1..Len(d.products) :
              d.products[p].product_id = d.order_details[od].product_id}

RECURSIVE SumOver(_, _)
SumOver(S, f) ==
    IF S = {} THEN 0
    ELSE LET x == CHOOSE y \in S : TRUE IN f[x] + SumOver(S \ {x}, f)

\* GROUP BY c.name with SUM(od.quantity * od.unit_price)
GroupKey(d, c) == d.customers[c].name

Groups(d) ==
    LET J == Joined(d)
        spend == [j \in J |-> d.order_details[j[3]].quantity * d.order_details[j[3]].unit_price]
    IN  {[customer_name |-> key,
          total_spend   |-> SumOver({j \in J : GroupKey(d, j[1]) = key}, spend)] :
            key \in {GroupKey(d, j[1]) : j \in J}}

\* mutant: ORDER BY total_spend ASC
NextRowsAscending(G) == {g \in G : \A h \in G : h.total_spend >= g.total_spend}

\* ORDER BY total_spend DESC: which group may come next
NextRows(G) == {g \in G : \A h \in G : h.total_spend <= g.total_spend}

\* ORDER BY ... LIMIT n: the order among equal totals is not fixed by the statement
RECURSIVE OrderedLimit(_, _)
OrderedLimit(G, n) ==
    IF n = 0 \/ G = {} THEN {<<>>}
    ELSE UNION {{<<g>> \o rest : rest \in OrderedLimit(G \ {g}, n - 1)} : g \in NextRows(G)}

QueryResults(d) == OrderedLimit(Groups(d), TopN)

(***************************************************************************)
(* Bounded draw sets.  A scenario names, for every random call, the finite *)
(* set of outcomes the check lets it return.                               *)
(***************************************************************************)
MaxCustomers == 2            \* customer_count of the bounded runs (200 in main())
MaxCsvRows == 2              \* longest hand-made CSV file given to the ingester

Identity == [i \in 1..CatalogSize |-> i]
\* a visiting order of the sampler that starts with the positions in first
PermFrom(first) == first \o SelectSeq(Identity, LAMBDA i : i \notin Range(first))

MidPrice(pid) == (PRODUCT_CATEGORIES[pid][3] + PRODUCT_CATEGORIES[pid][4]) * 50

BaseCust == [first |-> 1, last |-> 1, domain |-> 1, suffix |-> 0, phone1 |-> 200,
             phone2 |-> 200, phone3 |-> 1000, state |-> 1, days |-> 30]
BaseDate == [gauss |-> 15, hour |-> 12, minute |-> 0]
BaseLine == [gauss |-> 1, discount |-> 0, up |-> FALSE]
BasePay == [rate |-> 500, shipping |-> 499, method |-> 1, minutes |-> 5,
            low |-> FALSE, up |-> FALSE]

At(day, hour, minute) == Midnight(day) + hour * 60 + minute

BaseDraws ==
    [count  |-> 1,
     nows   |-> {At(1000, 12, 0)},
     cust   |-> [1..1 -> {BaseCust}],
     prod   |-> [pid \in 1..CatalogSize |-> {[price |-> MidPrice(pid), stock |-> 50]}],
     ocount |-> {1},
     odate  |-> {BaseDate},
     items  |-> {1},
     perms  |-> {Identity},
     line   |-> {BaseLine},
     pay    |-> {BasePay}]

\* end to end: customers that may share a name, one or two orders each, one or two lines
MainDraws ==
    [BaseDraws EXCEPT
        !.count  = MaxCustomers,
        !.cust   = [1..MaxCustomers ->
                       {BaseCust, [BaseCust EXCEPT !.first = 2, !.state = 2, !.suffix = 7]}],
        !.ocount = {0, 2},
        !.odate  = {[BaseDate EXCEPT !.gauss = 3, !.hour = 9]},
        !.items  = {0, 2},
        !.perms  = {PermFrom(<<3, 1>>)}]

\* order dates: early and late clock readings, short and long offsets
DatesDraws ==
    [BaseDraws EXCEPT
        !.nows   = {At(1000, 7, 30), At(1000, 22, 30)},
        !.cust   = [1..1 -> {BaseCust, [BaseCust EXCEPT !.days = 31]}],
        !.ocount = {1, 2},
        !.odate  = {[gauss |-> g, hour |-> h, minute |-> m] :
                        g \in {0, 15, 31, 45}, h \in {MinHour, MaxHour}, m \in {0, MaxMinute}}]

\* order lines: item counts below, inside and above the catalog size
LinesDraws ==
    [BaseDraws EXCEPT
        !.ocount = {1, 2},
        !.items  = {-1, 1, 2, 3, CatalogSize + 1},
        !.perms  = {Identity, PermFrom(<<3, 1>>), PermFrom(<<20, 7, 8>>)},
        !.line   = {[BaseLine EXCEPT !.gauss = 2]}]

\* payments: three lines of 17.49, 51.05 and 6.46, and orders of fewer lines
PayDraws ==
    [BaseDraws EXCEPT
        !.prod   = [pid \in 1..CatalogSize |->
                       {[price |-> CASE pid = 6 -> 646 [] pid = 7 -> 1749 [] pid = 8 -> 5105
                                     [] OTHER -> MidPrice(pid),
                         stock |-> 50]}],
        !.items  = {1, 2, 3},
        !.perms  = {PermFrom(<<7, 8, 6>>), PermFrom(<<10, 2>>)},
        !.line   = {BaseLine, [gauss |-> 2, discount |-> 15, up |-> TRUE]},
        !.pay    = {[rate |-> r, shipping |-> sh, method |-> 1, minutes |-> MaxPayMinutes,
                     low |-> lo, up |-> FALSE] :
                        r \in {MinTaxRate, MaxTaxRate},
                        sh \in {MinShippingCents, MaxShippingCents}, lo \in BOOLEAN}]

\* the query: one customer more than LIMIT; the last one's name may repeat an earlier one
TopDraws ==
    [BaseDraws EXCEPT
        !.count  = TopN + 1,
        !.cust   = {[i \in 1..(TopN + 1) |->
                        [BaseCust EXCEPT !.first = IF i <= TopN THEN i ELSE f] ] :
                            f \in 1..(TopN + 1)},
        !.line   = {BaseLine, [BaseLine EXCEPT !.gauss = 2]}]

\* the script run twice: at another time of the same day, or a day later
RerunDraws ==
    [BaseDraws EXCEPT
        !.nows   = {At(1000, 12, 0), At(1000, 18, 0), At(1001, 12, 0)},
        !.cust   = [1..1 -> {BaseCust, [BaseCust EXCEPT !.days = 31]}],
        !.ocount = {1, 2},
        !.odate  = {BaseDate, [BaseDate EXCEPT !.gauss = 40, !.hour = MaxHour]}]

\* generate_orders alone
OrdersDraws ==
    [BaseDraws EXCEPT
        !.ocount = {0, 2},
        !.odate  = {[BaseDate EXCEPT !.gauss = 0, !.hour = MinHour],
                    [BaseDate EXCEPT !.gauss = 5, !.hour = MaxHour]}]

Draws(s) ==
    CASE s = "main"   -> MainDraws
      [] s = "dates"  -> DatesDraws
      [] s = "lines"  -> LinesDraws
      [] s = "pay"    -> PayDraws
      [] s = "top"    -> TopDraws
      [] s = "rerun"  -> RerunDraws
      [] s = "orders" -> OrdersDraws
      [] OTHER        -> BaseDraws

D == Draws(scen)

\* every draw of a scenario is an outcome the random call can return
DrawsLegal(d) ==
    /\ \A cs \in d.cust : \A i \in 1..Len(cs) :
          LET c == cs[i] IN
          /\ c.first \in 1..Len(FIRST_NAMES) /\ c.last \in 1..Len(LAST_NAMES)
          /\ c.domain \in 1..Len(EMAIL_DOMAINS) /\ c.suffix \in 0..99
          /\ c.phone1 \in 200..999 /\ c.phone2 \in 200..999 /\ c.phone3 \in 1000..9999
          /\ c.state \in 1..Len(STATES)
          /\ c.days \in MinSignupDays..MaxSignupDays
    /\ \A pid \in 1..CatalogSize : \A x \in d.prod[pid] : x.stock \in 50..500
    /\ \A x \in d.odate :
          x.gauss >= 0 /\ x.hour \in MinHour..MaxHour /\ x.minute \in 0..MaxMinute
    /\ \A q \in d.perms : Len(q) = CatalogSize /\ Range(q) = 1..CatalogSize
    /\ \A x \in d.line : x.discount = 0 \/ x.discount \in MinDiscount..MaxDiscount
    /\ \A x \in d.pay :
          /\ x.rate \in MinTaxRate..MaxTaxRate
          /\ x.shipping \in MinShippingCents..MaxShippingCents
          /\ x.method \in 1..Len(PAYMENT_METHODS)
          /\ x.minutes \in MinPayMinutes..MaxPayMinutes

\* the draws of one call of each generation function
CustomerDraws(d) == d.cust
ProductDraws(d) == ProductOf(d.prod)
OrderDrawsOne(d) ==
    UNION {{[gauss |-> g, dates |-> s] : s \in [1..OrdersCount(g) -> d.odate]} :
              g \in d.ocount}
OrderDraws(d, n) == [1..n -> OrderDrawsOne(d)]
DetailDrawsOne(d) ==
    UNION {{[gauss |-> g, perm |-> q, lines |-> s] :
               s \in [1..Min(ItemCount(g), CatalogSize) -> d.line]} :
              <<g, q>> \in d.items \X d.perms}
DetailDraws(d, n) == [1..n -> DetailDrawsOne(d)]
PaymentDraws(d, n) == [1..n -> d.pay]

\* random.seed(42): a run draws what the seed fixes.  The first run finds the
\* values out; a later run of the script gets the same values again.
Seeded(call, S) == IF run = 1 THEN S ELSE {tape[call]}

NoTape == [customers |-> <<>>, products |-> <<>>, orders |-> <<>>,
           order_details |-> <<>>, payments |-> <<>>]

(***************************************************************************)
(* The session: python synthetic_data_generator.py, then                   *)
(* python ingest_to_sqlite.py, then python query_top_spenders.py.          *)
(* One action is one run of a script.  datetime.now() is taken to read the *)
(* same minute throughout one run of the generator.                       *)
(***************************************************************************)
InitScenario(s) ==
    /\ scen = s
    /\ DrawsLegal(Draws(s))
    /\ pc = "generate"
    /\ now \in Draws(s).nows
    /\ tape = NoTape
    /\ run = 1
    /\ customers = <<>> /\ products = <<>> /\ orders = <<>>
    /\ order_details = <<>> /\ payments = <<>>
    /\ files = NoFiles /\ prev_files = NoFiles
    /\ db = NoDb
    /\ exc = NoException
    /\ result = <<>>

\* main() of synthetic_data_generator.py
GeneratorMain ==
    /\ pc = "generate"
    /\ \E dc \in Seeded("customers", CustomerDraws(D)),
          dp \in Seeded("products", ProductDraws(D)) :
        LET cs == generate_customers(D.count, now, dc)
            ps == generate_products(dp)
        IN  \E do \in Seeded("orders", OrderDraws(D, Len(cs))) :
            LET os == generate_orders(cs, now, do) IN
            \E dd \in Seeded("order_details", DetailDraws(D, Len(os))) :
            LET ods == generate_order_details(os, ps, dd) IN
            /\ customers' = cs /\ products' = ps /\ orders' = os /\ order_details' = ods
            /\ IF PaymentsKeyError(os, ods)
               THEN /\ payments' = <<>>
                    /\ tape' = [customers |-> dc, products |-> dp, orders |-> do,
                                order_details |-> dd, payments |-> <<>>]
                    /\ exc' = [type |-> "KeyError", at |-> "generate_payments"]
                    /\ pc' = "failed"
                    /\ files' = files
               ELSE \E dy \in Seeded("payments", PaymentDraws(D, Len(os))) :
                    LET pays == generate_payments(os, ods, dy) IN
                    /\ payments' = pays
                    /\ tape' = [customers |-> dc, products |-> dp, orders |-> do,
                                order_details |-> dd, payments |-> dy]
                    /\ exc' = NoException
                    /\ pc' = "ingest"
                    /\ files' = WriteAll(cs, ps, os, ods, pays)
    /\ UNCHANGED <<scen, now, run, prev_files, db, result>>

\* main() of ingest_to_sqlite.py
IngestMain ==
    /\ pc = "ingest"
    /\ LET r == ingest_main(files) IN
          /\ db' = r.db
          /\ exc' = r.exc
          /\ pc' = IF r.exc = NoException THEN "query" ELSE "failed"
    /\ UNCHANGED <<scen, now, tape, run, customers, products, orders, order_details,
                   payments, files, prev_files, result>>

\* main() of query_top_spenders.py
QueryMain ==
    /\ pc = "query"
    /\ result' \in QueryResults(db)
    /\ pc' = "done"
    /\ UNCHANGED <<scen, now, tape, run, customers, products, orders, order_details,
                   payments, files, prev_files, db, exc>>

\* the operator starts the generator a second time: a new process, seeded again,
\* reading the clock again; the files of the first run are still on disk
StartAgain ==
    /\ pc = "ingest" /\ run = 1
    /\ run' = 2
    /\ now' \in {t \in D.nows : t >= now}
    /\ prev_files' = files
    /\ customers' = <<>> /\ products' = <<>> /\ orders' = <<>>
    /\ order_details' = <<>> /\ payments' = <<>>
    /\ pc' = "generate"
    /\ UNCHANGED <<scen, tape, files, db, exc, result>>

\* generate_orders(customers) called on its own
CallGenerateOrders ==
    /\ pc = "generate_orders"
    /\ \E do \in OrderDraws(D, Len(customers)) :
          /\ orders' = generate_orders(customers, now, do)
          /\ tape' = [tape EXCEPT !.orders = do]
    /\ pc' = "returned"
    /\ UNCHANGED <<scen, now, run, customers, products, order_details, payments, files,
                   prev_files, db, exc, result>>

Next == GeneratorMain \/ IngestMain \/ QueryMain

Init == InitScenario("main")
Spec == Init /\ [][Next]_vars

InitDates == InitScenario("dates")
SpecDates == InitDates /\ [][Next]_vars

InitLines == InitScenario("lines")
SpecLines == InitLines /\ [][Next]_vars

InitPay == InitScenario("pay")
SpecPay == InitPay /\ [][Next]_vars

InitTop == InitScenario("top")
SpecTop == InitTop /\ [][Next]_vars

InitRerun == InitScenario("rerun")
NextRerun == GeneratorMain \/ StartAgain \/ IngestMain \/ QueryMain
SpecRerun == InitRerun /\ [][NextRerun]_vars

\* generate_orders on customers signed up the day after, the day of, and before today
InputCustomers ==
    [1..MaxCustomers ->
        {[BaseCust EXCEPT !.days = d] : d \in {-1, 0, 2}}]

InitOrders ==
    /\ scen = "orders"
    /\ pc = "generate_orders"
    /\ now \in Draws("orders").nows
    /\ tape = NoTape
    /\ run = 1
    /\ \E dc \in InputCustomers : customers = generate_customers(MaxCustomers, now, dc)
    /\ products = <<>> /\ orders = <<>> /\ order_details = <<>> /\ payments = <<>>
    /\ files = NoFiles /\ prev_files = NoFiles
    /\ db = NoDb
    /\ exc = NoException
    /\ result = <<>>

NextOrders == CallGenerateOrders
SpecOrders == InitOrders /\ [][NextOrders]_vars

\* hand-made CSV files: order ids 1 and 2, references to orders 1 and 3 and to
\* products 1 and 9, two products, one customer
SeqsUpTo(S, n) == UNION {[1..k -> S] : k \in 0..n}

CsvOrders ==
    {[i \in 1..Len(ids) |->
         OrderRow([order_id |-> ids[i], customer_id |-> 1,
                   order_datetime |-> At(990, 9, 0), shipping_state |-> "CA"])] :
        ids \in SeqsUpTo({1, 2}, MaxCsvRows)}

CsvOrderDetails ==
    {[i \in 1..Len(refs) |->
         OrderDetailRow([order_detail_id |-> i, order_id |-> refs[i][1],
                         product_id |-> refs[i][2], quantity |-> 1, unit_price |-> 2400,
                         discount |-> 0, line_total |-> 2400])] :
        refs \in SeqsUpTo({1, 3} \X {1, 9}, MaxCsvRows)}

CsvPayments ==
    {[i \in 1..Len(refs) |->
         PaymentRow([payment_id |-> i, order_id |-> refs[i], payment_method |-> "paypal",
                     payment_datetime |-> At(990, 9, 5), subtotal |-> 2400, tax |-> 120,
                     shipping |-> 499, total |-> 3019, currency |-> "USD"])] :
        refs \in SeqsUpTo({1, 3}, MaxCsvRows)}

InitIngest ==
    /\ scen = "ingest"
    /\ pc = "ingest"
    /\ now = At(1000, 12, 0)
    /\ tape = NoTape
    /\ run = 1
    /\ customers = <<>> /\ products = <<>> /\ orders = <<>>
    /\ order_details = <<>> /\ payments = <<>>
    /\ \E co \in CsvOrders, cd \in CsvOrderDetails, cp \in CsvPayments :
          files = [customers     |-> <<CustomerRow(GenerateCustomer(1, now, BaseCust))>>,
                   products      |-> [i \in 1..2 |->
                                         ProductRow(generate_products(
                                             [pid \in 1..CatalogSize |->
                                                 [price |-> MidPrice(pid), stock |-> 50]])[i])],
                   orders        |-> co,
                   order_details |-> cd,
                   payments      |-> cp]
    /\ prev_files = NoFiles
    /\ db = NoDb
    /\ exc = NoException
    /\ result = <<>>

NextIngest == IngestMain
SpecIngest == InitIngest /\ [][NextIngest]_vars

(***************************************************************************)
(* Properties                                                              *)
(***************************************************************************)
Generated == pc \in {"ingest", "query", "done"} \/ (pc = "failed" /\ exc.type # "KeyError")

CustomerOf(o) == CHOOSE c \in Range(customers) : c.customer_id = o.customer_id
LinesOf(oid) == {j \in 1..Len(order_details) : order_details[j].order_id = oid}
PaymentsOf(oid) == {j \in 1..Len(payments) : payments[j].order_id = oid}
LineTotals == [j \in 1..Len(order_details) |-> order_details[j].line_total]

\* C1: every generated order is dated no earlier than one day after its customer's
\* signup date and no later than the generation time now
C1_OrderWithinSignupAndNow ==
    Generated =>
        \A i \in 1..Len(orders) :
            /\ orders[i].order_datetime >= Midnight(CustomerOf(orders[i]).signup_date + 1)
            /\ orders[i].order_datetime <= now

\* C2: a second run of the generator from the same seed writes the same five files
\* as the first, whatever the clock reads
C2_SameSeedSameFiles ==
    (run = 2 /\ pc \in {"ingest", "query", "done"}) => files = prev_files

\* what one customer spent: quantity x unit_price over the lines of that customer's orders
CustomerSpend(d, cid) ==
    LET mine == {od \in 1..Len(d.order_details) :
                    \E o \in 1..Len(d.orders) :
                        /\ d.orders[o].order_id = d.order_details[od].order_id
                        /\ d.orders[o].customer_id = cid}
    IN  SumOver(mine, [od \in mine |->
                          d.order_details[od].quantity * d.order_details[od].unit_price])

Spenders(d) == {d.orders[o].customer_id : o \in 1..Len(d.orders)}

\* C3: every row of the query stands for exactly one customer, carries the sum of
\* quantity x unit_price over that customer's lines, and the rows are the (up to) 5
\* customers of largest sum
C3_RowsArePerCustomer ==
    pc = "done" =>
        /\ Len(result) = Min(TopN, Cardinality(Spenders(db)))
        /\ \A i \in 1..Len(result) :
              LET named == {c \in 1..Len(db.customers) :
                               db.customers[c].name = result[i].customer_name}
              IN  /\ Cardinality(named) = 1
                  /\ \A c \in named :
                        /\ result[i].total_spend = CustomerSpend(db, db.customers[c].customer_id)
                        /\ \A other \in Spenders(db) :
                              CustomerSpend(db, other) > result[i].total_spend =>
                                  \E k \in 1..Len(result) :
                                      /\ result[k].total_spend = CustomerSpend(db, other)
                                      /\ \E c2 \in 1..Len(db.customers) :
                                            /\ db.customers[c2].customer_id = other
                                            /\ db.customers[c2].name = result[k].customer_name

\* C4 as stated: at most 5 rows, each total strictly above the next one
C4_StrictlyDescending ==
    pc = "done" =>
        /\ Len(result) <= 5
        /\ \A i \in 1..(Len(result) - 1) :
              result[i].total_spend > result[i + 1].total_spend

\* C4 amended: at most 5 rows, no total below the next one (equal totals may follow
\* each other)
C4_DescendingAtMostFive ==
    pc = "done" =>
        /\ Len(result) <= 5
        /\ \A i \in 1..(Len(result) - 1) :
              result[i].total_spend >= result[i + 1].total_spend

\* six groups compete, five rows come back, and not all totals are equal
C4_Witness ==
    /\ pc = "done"
    /\ Cardinality(Groups(db)) = 6
    /\ Len(result) = 5
    /\ result[1].total_spend > result[5].total_spend

\* C5: for every payment total = subtotal + tax + shipping on the stored values, and
\* shipping is 0 whenever the stored subtotal is at least 75.00, else within 4.99..14.99
C5_TotalAndFreeShipping ==
    Generated =>
        \A i \in 1..Len(payments) :
            LET p == payments[i] IN
            /\ p.total = p.subtotal + p.tax + p.shipping
            /\ p.subtotal >= 7500 => p.shipping = 0
            /\ p.subtotal < 7500 => p.shipping \in 499..1499

\* C6: every order has exactly one payment and at least one line, the payment's
\* subtotal is within 0.01 of the sum of the order's line totals, and the per-order
\* lookup of generate_payments never raises KeyError
C6_OnePaymentPerOrder ==
    /\ exc.type # "KeyError"
    /\ Generated =>
          \A i \in 1..Len(orders) :
              LET oid == orders[i].order_id
                  sum == SumOver(LinesOf(oid), LineTotals)
              IN  /\ LinesOf(oid) # {}
                  /\ Cardinality(PaymentsOf(oid)) = 1
                  /\ \A j \in PaymentsOf(oid) :
                        /\ payments[j].subtotal - sum <= 1
                        /\ sum - payments[j].subtotal <= 1

\* orders of one and of two lines have been paid
C6_Witness ==
    /\ pc = "ingest"
    /\ Len(payments) >= 3
    /\ \E i \in 1..Len(orders) : Cardinality(LinesOf(orders[i].order_id)) = 2
    /\ \E i \in 1..Len(orders) : Cardinality(LinesOf(orders[i].order_id)) = 1

\* C7: ingesting what the generator wrote is never refused, and afterwards each table
\* holds as many rows as the generated collection; products holds exactly 20
C7_RoundTripCounts ==
    /\ exc.type \notin {"IntegrityError", "ValueError"}
    /\ pc \in {"query", "done"} =>
          /\ Len(db.customers) = Len(customers)
          /\ Len(db.products) = Len(products)
          /\ Len(db.orders) = Len(orders)
          /\ Len(db.order_details) = Len(order_details)
          /\ Len(db.payments) = Len(payments)
          /\ Len(db.products) = 20

\* the ingest of a data set of several orders and lines has finished
C7_Witness ==
    /\ pc = "query"
    /\ Len(db.customers) >= 2
    /\ Len(db.orders) >= 3
    /\ Len(db.order_details) > Len(db.orders)
    /\ Len(db.payments) = Len(db.orders)

\* C8: the lines of one order name pairwise distinct products, and their number is
\* min(item_count, catalog size), where item_count >= 1 is the drawn count floored at 1
C8_DistinctProductsPerOrder ==
    Generated =>
        \A i \in 1..Len(orders) :
            LET lines == LinesOf(orders[i].order_id)
                drawn == tape.order_details[i].gauss
                item_count == IF drawn >= 1 THEN drawn ELSE 1
            IN  /\ \A j, k \in lines :
                      j # k => order_details[j].product_id # order_details[k].product_id
                /\ Cardinality(lines) = IF item_count <= 20 THEN item_count ELSE 20

\* an order took the whole catalog, another one got a single line from a drawn count below 1
C8_Witness ==
    /\ pc = "ingest"
    /\ \E i \in 1..Len(orders) : Cardinality(LinesOf(orders[i].order_id)) = 20
    /\ \E i \in 1..Len(orders) :
          /\ tape.order_details[i].gauss < 1
          /\ Cardinality(LinesOf(orders[i].order_id)) = 1

OrdersOfCid(cid) == {i \in 1..Len(orders) : orders[i].customer_id = cid}

\* C9: a customer whose signup date is the generation date or later gets at least one
\* order, and each of that customer's orders is dated exactly one day after signup
C9_BoundaryCustomerOrders ==
    pc = "returned" =>
        \A c \in Range(customers) :
            DateOf(now) - c.signup_date <= 0 =>
                /\ OrdersOfCid(c.customer_id) # {}
                /\ \A i \in OrdersOfCid(c.customer_id) :
                      DateOf(orders[i].order_datetime) = c.signup_date + 1

\* a customer signed up today got two orders, one of them from a sampled offset above 1
C9_Witness ==
    /\ pc = "returned"
    /\ \E c \in Range(customers) :
          /\ c.signup_date = DateOf(now)
          /\ Cardinality(OrdersOfCid(c.customer_id)) = 2
          /\ tape.orders[c.customer_id].dates[1].gauss > 1

\* the CSV file of table t names an order that the orders table does not hold
Dangling(t) ==
    \E i \in 1..Len(files[t]) :
        files[t][i].order_id.v \notin Keys(db.orders, "order_id")

InsertsBefore(t) ==
    IF t = "order_details" THEN {"insert_customers", "insert_products", "insert_orders"}
    ELSE {"insert_customers", "insert_products", "insert_orders", "insert_order_details"}

\* C10: when the insert of order_details (or payments) is reached and its CSV names an
\* order the orders table does not hold, the insert is refused with an integrity
\* error, the run ends there, the table and every later table hold no row, and the
\* tables inserted before keep all their rows
C10_DanglingOrderAbortsRun ==
    pc # "ingest" =>
        \A t \in {"order_details", "payments"} :
            (exc.at \notin InsertsBefore(t) /\ Dangling(t)) =>
                /\ pc = "failed"
                /\ exc = [type |-> "IntegrityError", at |-> "insert_" \o t]
                /\ db[t] = <<>>
                /\ db.payments = <<>>
                /\ Len(db.customers) = Len(files.customers)
                /\ Len(db.products) = Len(files.products)
                /\ Len(db.orders) = Len(files.orders)
                /\ t = "payments" => Len(db.order_details) = Len(files.order_details)

\* payments.csv names a missing order after the order lines went in
C10_Witness ==
    /\ pc = "failed"
    /\ exc.at = "insert_payments"
    /\ Dangling("payments")
    /\ Len(db.orders) >= 1
    /\ Len(db.order_details) >= 1
    /\ Len(files.payments) = 2
    /\ files.payments[1].order_id.v \in Keys(db.orders, "order_id")

====
